---------------------------- MODULE Spec2Model ----------------------------
(***************************************************************************)
(* A pytest session over skills/tdd-expert/assets/pytest-template.py.      *)
(*                                                                         *)
(* The file is a test module: its behaviour is what happens when the test  *)
(* runner imports it (the top-level statements run in order and bind the   *)
(* module's names), collects its test functions and fixtures from the      *)
(* names that ended up bound, and runs setup / call / teardown for every    *)
(* collected item in definition order.                                     *)
(*                                                                         *)
(* The file refers to names it does not define.  Which of them resolve is  *)
(* an input of the session (env): the file as shipped is the input in      *)
(* which the import block is unedited (env.sys = FALSE); usage note 3 of   *)
(* the module docstring (lines 4-7) tells the adopter to edit the imports, *)
(* and the other inputs are the sessions after such an edit.               *)
(***************************************************************************)
EXTENDS Integers, Sequences, FiniteSets

VARIABLES
    env,        \* which undefined names resolve in this session
    phase,      \* "load" | "collecterror" | "run" | "done"
    pc,         \* load: index of the next top-level statement
    ns,         \* module namespace: name -> first line of the binding statement (0: unbound)
    errLine,    \* first line of the statement at which loading stopped (0: none)
    items,      \* the collected test items, in running order
    cur,        \* index of the item being run (0: none yet)
    step,       \* position in the current item's setup / call / teardown
    stats,      \* the session's outcome counters
    lastReport, \* the latest test report: [name, outcome]
    calls,      \* history: the test bodies entered, with the arguments passed
    hooks,      \* the xunit hooks' state and call counters
    db,         \* the value of the `database` fixture in the current item
    dep,        \* what your_module.external_dependency is bound to
    patchCtx,   \* the with-block of test_with_patch
    fi          \* index of the next requested fixture to set up

vars == <<env, phase, pc, ns, errLine, items, cur, step, stats, lastReport,
          calls, hooks, db, dep, patchCtx, fi>>

loadVars == <<pc, ns, errLine>>
runVars  == <<items, cur, step, stats, lastReport, calls, hooks, db, dep, patchCtx, fi>>

--------------------------------------------------------------------------
(* The top-level statements of the file, in order, each named by its first *)
(* line.  binds: the names the statement binds; needs: the names it        *)
(* resolves while the module is being executed (decorator expressions);    *)
(* mod: the module an import statement imports.                            *)

S(line, binds, needs, mod) ==
    [line |-> line, binds |-> binds, needs |-> needs, mod |-> mod]

Stmts ==
    << S(10,  {"pytest"}, {}, "pytest"),
       S(11,  {"Mock", "patch"}, {}, "unittest.mock"),
       S(12,  {"YourClass", "your_function"}, {}, "your_module"),
       S(19,  {"instance"}, {"pytest"}, ""),
       S(25,  {"fresh_instance"}, {"pytest"}, ""),
       S(31,  {"database"}, {"pytest"}, ""),
       S(40,  {"shared_resource"}, {"pytest"}, ""),
       S(53,  {"test_function_with_various_inputs"}, {"pytest"}, ""),
       S(68,  {"test_raises_exception"}, {}, ""),
       S(76,  {"test_raises_specific_exception"}, {}, ""),
       S(86,  {"test_with_mock"}, {}, ""),
       S(97,  {"test_with_patch"}, {}, ""),
       S(112, {"test_async_function"}, {"pytest"}, ""),
       S(119, {"test_async_with_fixture"}, {"pytest"}, ""),
       S(130, {"TestYourClass"}, {"pytest"}, ""),
       S(153, {"test_given_when_then"}, {}, ""),
       S(172, {"test_slow_operation"}, {"pytest"}, ""),
       S(180, {"test_not_ready"}, {"pytest"}, ""),
       S(186, {"test_python38_feature"}, {"pytest", "sys"}, ""),
       S(192, {"test_known_failure"}, {"pytest"}, ""),
       S(202, {"test_with_tmp_path"}, {}, ""),
       S(211, {"test_with_tmpdir"}, {}, ""),
       S(224, {"test_snapshot"}, {}, ""),
       S(234, {"setup_module"}, {}, ""),
       S(239, {"teardown_module"}, {}, ""),
       S(244, {"setup_function"}, {}, ""),
       S(249, {"teardown_function"}, {}, ""),
       S(258, {"config"}, {"pytest"}, ""),
       S(263, {"database"}, {"pytest"}, ""),
       S(269, {"test_with_multiple_fixtures"}, {}, ""),
       S(279, {"test_with_monkeypatch_env"}, {}, ""),
       S(285, {"test_with_monkeypatch_attribute"}, {}, ""),
       S(295, {"test_logging"}, {}, ""),
       S(305, {"test_stdout"}, {}, "") >>

Names == UNION { Stmts[i].binds : i \in 1..Len(Stmts) } \cup {"sys"}

(* The names bound before the first statement runs: none in the file as    *)
(* shipped; `sys` once the adopter has added the import.                   *)
PreBoundWithSys(e) == {"sys"}

PreBound(e) == IF e.sys THEN {"sys"} ELSE {}

(* Whether an import statement finds its module.                           *)
Importable(e, mod) ==
    CASE mod = "your_module" -> e.your_module
      [] OTHER -> TRUE

(* Whether statement s runs to its end in namespace n.                     *)
StmtOk(e, n, s) ==
    /\ \A x \in s.needs : n[x] # 0
    /\ s.mod # "" => Importable(e, s.mod)

Bind(n, s) == [x \in Names |-> IF x \in s.binds THEN s.line ELSE n[x]]

--------------------------------------------------------------------------
(* The test definitions, in definition order.  kind: a module-level        *)
(* function or a method of TestYourClass; marks: the pytest.mark           *)
(* decorators; fixtures: the parameters the runner fills by name; body:    *)
(* the outcomes the body can end with (a body that calls a placeholder     *)
(* such as your_function can pass or fail; `assert 1 == 2` and             *)
(* `assert False` can only fail; `assert True` can only pass).             *)

T(name, stmt, kind, marks, fixtures, body) ==
    [name |-> name, stmt |-> stmt, kind |-> kind, marks |-> marks,
     fixtures |-> fixtures, body |-> body]

Either == {"passed", "failed"}

(* The argvalues of the parametrize decorator of                          *)
(* test_function_with_various_inputs: (input, expected).                   *)
ParamsTypo == << <<1, 2>>, <<2, 4>>, <<3, 4>>, <<10, 20>> >>

Params == << <<1, 2>>, <<2, 4>>, <<3, 6>>, <<10, 20>> >>

TestDefs ==
    << T("test_function_with_various_inputs", "test_function_with_various_inputs",
         "function", {"parametrize"}, <<>>, Either),
       T("test_raises_exception", "test_raises_exception", "function", {}, <<>>, Either),
       T("test_raises_specific_exception", "test_raises_specific_exception",
         "function", {}, <<>>, Either),
       T("test_with_mock", "test_with_mock", "function", {}, <<>>, Either),
       T("test_with_patch", "test_with_patch", "function", {}, <<>>, Either),
       T("test_async_function", "test_async_function", "function", {"asyncio"},
         <<>>, Either),
       T("test_async_with_fixture", "test_async_with_fixture", "function",
         {"asyncio"}, <<"async_client">>, Either),
       T("test_method_one", "TestYourClass", "method", {}, <<"setup">>, Either),
       T("test_method_two_with_exception", "TestYourClass", "method", {},
         <<"setup">>, Either),
       T("test_given_when_then", "test_given_when_then", "function", {}, <<>>, Either),
       T("test_slow_operation", "test_slow_operation", "function", {"slow"},
         <<>>, {"passed"}),
       T("test_not_ready", "test_not_ready", "function", {"skip"}, <<>>, {"failed"}),
       T("test_python38_feature", "test_python38_feature", "function", {"skipif"},
         <<>>, {"passed"}),
       T("test_known_failure", "test_known_failure", "function", {"xfail"},
         <<>>, {"failed"}),
       T("test_with_tmp_path", "test_with_tmp_path", "function", {},
         <<"tmp_path">>, {"passed"}),
       T("test_with_tmpdir", "test_with_tmpdir", "function", {},
         <<"tmpdir">>, {"passed"}),
       T("test_snapshot", "test_snapshot", "function", {}, <<"snapshot">>, Either),
       T("test_with_multiple_fixtures", "test_with_multiple_fixtures", "function",
         {}, <<"database", "instance">>, Either),
       T("test_with_monkeypatch_env", "test_with_monkeypatch_env", "function", {},
         <<"monkeypatch">>, Either),
       T("test_with_monkeypatch_attribute", "test_with_monkeypatch_attribute",
         "function", {}, <<"monkeypatch">>, Either),
       T("test_logging", "test_logging", "function", {}, <<"caplog">>, Either),
       T("test_stdout", "test_stdout", "function", {}, <<"capsys">>, {"passed"}) >>

NoArgs == <<>>

(* The items one test definition yields: one per parameter set when it is  *)
(* parametrized, one otherwise; none when its name is not bound.           *)
Expand(n, d) ==
    IF n[d.stmt] = 0 THEN <<>>
    ELSE IF "parametrize" \in d.marks
         THEN [i \in 1..Len(Params) |-> [def |-> d, args |-> Params[i]]]
         ELSE << [def |-> d, args |-> NoArgs] >>

RECURSIVE CollectFrom(_, _)
CollectFrom(n, k) ==
    IF k > Len(TestDefs) THEN <<>>
    ELSE Expand(n, TestDefs[k]) \o CollectFrom(n, k + 1)

Collected(n) == CollectFrom(n, 1)

--------------------------------------------------------------------------
(* The fixtures.  FixtureAt(l): the fixture function whose statement       *)
(* starts at line l.  deps: the fixtures it requests; uses: the undefined  *)
(* names its body resolves when called; connects: it calls db.connect()    *)
(* before handing the value over; finalizer: it has code after a yield.    *)

F(scope, deps, uses, connects, finalizer) ==
    [scope |-> scope, deps |-> deps, uses |-> uses, connects |-> connects,
     finalizer |-> finalizer]

FixtureAt(l) ==
    CASE l = 19  -> F("function", <<>>, {}, FALSE, FALSE)
      [] l = 25  -> F("function", <<>>, {}, FALSE, FALSE)
      [] l = 31  -> F("function", <<>>, {"Database"}, TRUE, TRUE)
      [] l = 40  -> F("module", <<>>, {"ExpensiveResource"}, FALSE, TRUE)
      [] l = 130 -> F("function", <<>>, {}, FALSE, FALSE)
      [] l = 258 -> F("function", <<>>, {}, FALSE, FALSE)
      [] l = 263 -> F("function", <<"config">>, {"Database"}, FALSE, FALSE)

ModuleFixtures == {"instance", "fresh_instance", "database", "shared_resource", "config"}
BuiltinFixtures == {"tmp_path", "tmpdir", "monkeypatch", "caplog", "capsys"}

(* The definition a requested fixture name resolves to: the statement the  *)
(* name is bound to when the module has been imported (0: not a fixture    *)
(* of the file).  `setup` is the autouse fixture of TestYourClass.          *)
Resolve(n, f) ==
    CASE f \in ModuleFixtures -> n[f]
      [] f = "setup" -> n["TestYourClass"]
      [] OTHER -> 0

(* Whether undefined name x resolves when a fixture body is called.        *)
Resolves(e, x) ==
    CASE x = "Database" -> e.Database
      [] OTHER -> FALSE

(* Whether fixture f can be set up at all: a fixture of the file needs the *)
(* names its body uses and the fixtures it requests; a builtin always      *)
(* can; any other name needs a plugin or conftest to provide it.           *)
RECURSIVE CanSetUp(_, _, _)
CanSetUp(e, n, f) ==
    IF f \in BuiltinFixtures THEN TRUE
    ELSE IF Resolve(n, f) = 0 THEN e.plugins
    ELSE LET d == FixtureAt(Resolve(n, f)) IN
         /\ \A x \in d.uses : Resolves(e, x)
         /\ \A i \in 1..Len(d.deps) : CanSetUp(e, n, d.deps[i])

Requests(it, f) == \E i \in 1..Len(it.def.fixtures) : it.def.fixtures[i] = f

(* Whether the body of a fixture calls a placeholder (YourClass(),         *)
(* Database(...), db.connect()), which may raise.                          *)
CallsPlaceholder(n, f) == Resolve(n, f) \in {19, 25, 31, 40, 130, 263}

--------------------------------------------------------------------------
(* The runner's options: the addopts of the configuration the file         *)
(* documents hold neither -x / --maxfail nor --runxfail.                   *)
ExitFirst == FALSE

RunXfailOn == TRUE

RunXfail == FALSE

(* The skipif condition of test_python38_feature.                          *)
SkipifCondition(e) == e.oldpy

SkippedOnlyIf(e, it) == "skipif" \in it.def.marks /\ SkipifCondition(e)

Skipped(e, it) ==
    \/ "skip" \in it.def.marks
    \/ "skipif" \in it.def.marks /\ SkipifCondition(e)

(* The outcome reported for a phase that ended with raw outcome o.         *)
Outcome(it, o) ==
    IF "xfail" \in it.def.marks /\ ~RunXfail
    THEN CASE o = "failed" -> "xfailed"
           [] o = "error"  -> "xfailed"
           [] o = "passed" -> "xpassed"
           [] OTHER -> o
    ELSE o

(* The xunit hooks the module defines.                                     *)
ModuleHooks(n) == {h \in {"setup_module", "teardown_module"} : n[h] # 0}

FunctionHooksNoTeardown(n) == {h \in {"setup_function"} : n[h] # 0}

FunctionHooks(n) == {h \in {"setup_function", "teardown_function"} : n[h] # 0}

(* What `with patch(...)` rebinds the attribute to when the block is left  *)
(* with outcome o: the saved original, however the block is left.          *)
RestoreOnlyOnSuccess(o, saved) == IF o = "passed" THEN saved ELSE "mock"

RestoreOnExit(o, saved) == saved

--------------------------------------------------------------------------
Envs == [your_module : BOOLEAN, sys : BOOLEAN, Database : BOOLEAN,
         external_dependency : BOOLEAN, plugins : BOOLEAN, oldpy : BOOLEAN]

Outcomes == {"passed", "failed", "error", "skipped", "xfailed", "xpassed"}

NoReport == [name |-> "", args |-> NoArgs, outcome |-> ""]
NoDb == [def |-> 0, connected |-> FALSE, connects |-> 0, cleanups |-> 0]
NoPatch == [active |-> FALSE, saved |-> "", seen |-> {}, pending |-> ""]

Init ==
    /\ env \in Envs
    /\ phase = "load"
    /\ pc = 1
    /\ ns = [x \in Names |-> IF x \in PreBound(env) THEN 1 ELSE 0]
    /\ errLine = 0
    /\ items = <<>>
    /\ cur = 0
    /\ step = ""
    /\ stats = [o \in Outcomes |-> 0]
    /\ lastReport = NoReport
    /\ calls = <<>>
    /\ hooks = [moduleSetUp |-> FALSE, setupModule |-> 0, teardownModule |-> 0,
                funcSetUp |-> 0, setupFunction |-> 0, teardownFunction |-> 0]
    /\ db = NoDb
    /\ dep = IF env.external_dependency THEN "original" ELSE "absent"
    /\ patchCtx = NoPatch
    /\ fi = 0

(* The import of the module: one top-level statement per step.             *)
ExecStmt ==
    /\ phase = "load"
    /\ pc <= Len(Stmts)
    /\ StmtOk(env, ns, Stmts[pc])
    /\ ns' = Bind(ns, Stmts[pc])
    /\ pc' = pc + 1
    /\ UNCHANGED <<env, phase, errLine, runVars>>

(* A statement that raises (ImportError, NameError) ends the import: the   *)
(* runner reports a collection error for the module and runs nothing.      *)
LoadError ==
    /\ phase = "load"
    /\ pc <= Len(Stmts)
    /\ ~StmtOk(env, ns, Stmts[pc])
    /\ phase' = "collecterror"
    /\ errLine' = Stmts[pc].line
    /\ UNCHANGED <<env, pc, ns, runVars>>

(* The module imported: its tests are collected from the bound names.      *)
Collect ==
    /\ phase = "load"
    /\ pc > Len(Stmts)
    /\ items' = Collected(ns)
    /\ phase' = "run"
    /\ cur' = 1
    /\ step' = "pending"
    /\ UNCHANGED <<env, loadVars, stats, lastReport, calls, hooks, db, dep, patchCtx, fi>>

Cur == items[cur]

Report(it, o) ==
    /\ stats' = [stats EXCEPT ![Outcome(it, o)] = @ + 1]
    /\ lastReport' = [name |-> it.def.name, args |-> it.args, outcome |-> Outcome(it, o)]

Running == phase = "run" /\ cur \in 1..Len(items)

(* A skip-marked item is reported skipped before any of its setup.         *)
SkipItem ==
    /\ Running /\ step = "pending"
    /\ Skipped(env, Cur)
    /\ Report(Cur, "skipped")
    /\ step' = "advance"
    /\ UNCHANGED <<env, phase, loadVars, items, cur, calls, hooks, db, dep, patchCtx, fi>>

(* setup_module(module): before the first item of the module is set up.    *)
SetupModule ==
    /\ Running /\ step = "pending"
    /\ ~Skipped(env, Cur)
    /\ ~hooks.moduleSetUp
    /\ hooks' = [hooks EXCEPT !.moduleSetUp = TRUE,
                              !.setupModule = IF "setup_module" \in ModuleHooks(ns)
                                              THEN @ + 1 ELSE @]
    /\ UNCHANGED <<env, phase, loadVars, items, cur, step, stats, lastReport,
                   calls, db, dep, patchCtx, fi>>

(* setup_function(function): for a module-level test function, before     *)
(* its fixtures; a method of a class does not get it.                      *)
XunitSetup ==
    /\ Running /\ step = "pending"
    /\ ~Skipped(env, Cur)
    /\ hooks.moduleSetUp
    /\ hooks' = IF Cur.def.kind = "function" /\ "setup_function" \in FunctionHooks(ns)
                THEN [hooks EXCEPT !.funcSetUp = cur, !.setupFunction = @ + 1]
                ELSE hooks
    /\ step' = IF Len(Cur.def.fixtures) = 0 THEN "call" ELSE "fixtures"
    /\ fi' = 1
    /\ UNCHANGED <<env, phase, loadVars, items, cur, stats, lastReport,
                   calls, db, dep, patchCtx>>

(* One requested fixture (with the fixtures it requests) is set up; an     *)
(* exception in it is reported as an error and the body does not run.      *)
SetupFixture ==
    /\ Running /\ step = "fixtures"
    /\ LET f == Cur.def.fixtures[fi]
           l == Resolve(ns, f)
       IN \E raises \in BOOLEAN :
            /\ raises => CallsPlaceholder(ns, f)
            /\ IF CanSetUp(env, ns, f) /\ ~raises
               THEN /\ db' = IF f = "database"
                             THEN [db EXCEPT !.def = l,
                                             !.connected = FixtureAt(l).connects,
                                             !.connects = IF FixtureAt(l).connects
                                                          THEN @ + 1 ELSE @]
                             ELSE db
                    /\ step' = IF fi = Len(Cur.def.fixtures) THEN "call" ELSE "fixtures"
                    /\ fi' = fi + 1
                    /\ UNCHANGED <<stats, lastReport>>
               ELSE /\ Report(Cur, "error")
                    /\ step' = "teardown"
                    /\ UNCHANGED <<db, fi>>
    /\ UNCHANGED <<env, phase, loadVars, items, cur, calls, hooks, dep, patchCtx>>

(* Whether the runner can execute the body: a coroutine test needs the     *)
(* asyncio plugin.                                                         *)
Runnable(e, it) == "asyncio" \in it.def.marks => e.plugins

(* The call phase of every test but test_with_patch.  A coroutine test     *)
(* without the plugin is not entered: depending on the runner's version    *)
(* it is reported skipped or failed.                                       *)
CallBody ==
    /\ Running /\ step = "call"
    /\ Cur.def.name # "test_with_patch"
    /\ IF Runnable(env, Cur)
       THEN /\ calls' = Append(calls, [name |-> Cur.def.name, args |-> Cur.args])
            /\ \E o \in Cur.def.body : Report(Cur, o)
       ELSE /\ calls' = calls
            /\ \E o \in {"skipped", "failed"} : Report(Cur, o)
    /\ step' = "teardown"
    /\ UNCHANGED <<env, phase, loadVars, items, cur, hooks, db, dep, patchCtx, fi>>

(* test_with_patch, line 99: entering `with patch(...)` looks the target   *)
(* up (AttributeError when your_module has no such attribute, and the      *)
(* test fails there), saves it and binds the attribute to the mock.        *)
PatchEnter ==
    /\ Running /\ step = "call"
    /\ Cur.def.name = "test_with_patch"
    /\ calls' = Append(calls, [name |-> Cur.def.name, args |-> Cur.args])
    /\ IF dep = "absent"
       THEN /\ Report(Cur, "failed")
            /\ step' = "teardown"
            /\ UNCHANGED <<dep, patchCtx>>
       ELSE /\ patchCtx' = [active |-> TRUE, saved |-> dep, seen |-> {}, pending |-> ""]
            /\ dep' = "mock"
            /\ step' = "inpatch"
            /\ UNCHANGED <<stats, lastReport>>
    /\ UNCHANGED <<env, phase, loadVars, items, cur, hooks, db, fi>>

(* Lines 100-105: your_function() looks the dependency up; the block ends  *)
(* normally or with a failing assertion.                                   *)
PatchBody ==
    /\ Running /\ step = "inpatch"
    /\ patchCtx.pending = ""
    /\ \E o \in Either :
         patchCtx' = [patchCtx EXCEPT !.seen = @ \cup {dep}, !.pending = o]
    /\ UNCHANGED <<env, phase, loadVars, items, cur, step, stats, lastReport,
                   calls, hooks, db, dep, fi>>

(* Leaving the with-block: the patcher's __exit__ runs on both ways out.   *)
PatchExit ==
    /\ Running /\ step = "inpatch"
    /\ patchCtx.pending # ""
    /\ dep' = RestoreOnExit(patchCtx.pending, patchCtx.saved)
    /\ patchCtx' = [patchCtx EXCEPT !.active = FALSE]
    /\ Report(Cur, patchCtx.pending)
    /\ step' = "teardown"
    /\ UNCHANGED <<env, phase, loadVars, items, cur, calls, hooks, db, fi>>

(* The finalizers of the item's function-scoped fixtures: the code after   *)
(* the yield of the `database` fixture, when the resolved one has any.     *)
TeardownFixtures ==
    /\ Running /\ step = "teardown"
    /\ db' = IF db.def # 0
             THEN [db EXCEPT !.def = 0, !.connected = FALSE,
                             !.cleanups = IF FixtureAt(db.def).finalizer
                                          THEN @ + 1 ELSE @]
             ELSE db
    /\ step' = "xunit_teardown"
    /\ UNCHANGED <<env, phase, loadVars, items, cur, stats, lastReport, calls,
                   hooks, dep, patchCtx, fi>>

(* teardown_function(function): after the fixtures' finalizers, for the    *)
(* item setup_function ran for.                                            *)
XunitTeardown ==
    /\ Running /\ step = "xunit_teardown"
    /\ hooks' = IF hooks.funcSetUp = cur /\ "teardown_function" \in FunctionHooks(ns)
                THEN [hooks EXCEPT !.funcSetUp = 0, !.teardownFunction = @ + 1]
                ELSE hooks
    /\ step' = "advance"
    /\ UNCHANGED <<env, phase, loadVars, items, cur, stats, lastReport, calls,
                   db, dep, patchCtx, fi>>

(* Whether the session stops after the current item.                       *)
Stops == cur = Len(items) \/ (ExitFirst /\ stats["failed"] + stats["error"] > 0)

NextItem ==
    /\ Running /\ step = "advance"
    /\ ~Stops
    /\ cur' = cur + 1
    /\ step' = "pending"
    /\ fi' = 0
    /\ UNCHANGED <<env, phase, loadVars, items, stats, lastReport, calls, hooks,
                   db, dep, patchCtx>>

(* The end of the session: teardown_module(module), when the module was    *)
(* set up.                                                                 *)
Finish ==
    /\ Running /\ step = "advance"
    /\ Stops
    /\ hooks' = IF hooks.moduleSetUp
                THEN [hooks EXCEPT !.moduleSetUp = FALSE,
                                   !.teardownModule = IF "teardown_module" \in ModuleHooks(ns)
                                                      THEN @ + 1 ELSE @]
                ELSE hooks
    /\ phase' = "done"
    /\ step' = ""
    /\ UNCHANGED <<env, loadVars, items, cur, stats, lastReport, calls, db, dep,
                   patchCtx, fi>>

Next ==
    \/ ExecStmt
    \/ LoadError
    \/ Collect
    \/ SkipItem
    \/ SetupModule
    \/ XunitSetup
    \/ SetupFixture
    \/ CallBody
    \/ PatchEnter
    \/ PatchBody
    \/ PatchExit
    \/ TeardownFixtures
    \/ XunitTeardown
    \/ NextItem
    \/ Finish

Spec == Init /\ [][Next]_vars

--------------------------------------------------------------------------
(* Helpers of the properties.                                              *)

CalledNames == {calls[i].name : i \in 1..Len(calls)}

Reported == stats["passed"] + stats["failed"] + stats["error"]
            + stats["skipped"] + stats["xfailed"] + stats["xpassed"]

InItem(name) == Running /\ Cur.def.name = name

BodyReached == Running /\ step \in {"call", "inpatch"}

ListedPairs == { <<1, 2>>, <<2, 4>>, <<3, 6>>, <<10, 20>> }

ParamRuns(p) ==
    Cardinality({i \in 1..Len(calls) :
                    /\ calls[i].name = "test_function_with_various_inputs"
                    /\ calls[i].args = p})

--------------------------------------------------------------------------
(* C1: every test that requests the fixture `database` runs inside that    *)
(* fixture's setup/teardown: db.connect() has completed when the body      *)
(* starts, and db.cleanup() has been called for it before the next item    *)
(* starts.                                                                 *)
C1_DatabaseBracketsTest ==
    /\ (BodyReached /\ Requests(Cur, "database")) =>
          (db.connected /\ db.connects = db.cleanups + 1)
    /\ (Running /\ step \in {"pending", "advance"}) =>
          (\A i \in 1..Len(calls) :
              calls[i].name = "test_with_multiple_fixtures" => db.cleanups >= 1)

(* C2: test_function_with_various_inputs is run exactly once for each of   *)
(* the four listed pairs, each run with the input and expected of one      *)
(* listed pair, whatever the outcome of the other pairs.                   *)
C2_EachPairRunOnce ==
    /\ \A i \in 1..Len(calls) :
          calls[i].name = "test_function_with_various_inputs"
             => calls[i].args \in ListedPairs
    /\ \A p \in ListedPairs : ParamRuns(p) <= 1
    /\ (phase = "done" \/ (Running /\ Cur.def.name # "test_function_with_various_inputs"))
          => \A p \in ListedPairs : ParamRuns(p) = 1

(* The last pair has been run after an earlier pair failed.                *)
C2_Witness ==
    /\ lastReport.name = "test_function_with_various_inputs"
    /\ lastReport.args = <<10, 20>>
    /\ stats["failed"] >= 1
    /\ \A p \in ListedPairs : ParamRuns(p) = 1

(* C3: the failing body of the xfail-marked test_known_failure is          *)
(* reported as an expected failure and adds nothing to the run's failures  *)
(* and errors, and every item after it is still run and reported.          *)
C3_XfailDoesNotInterrupt ==
    /\ [](lastReport.name = "test_known_failure" => lastReport.outcome = "xfailed")
    /\ [](phase = "done" =>
            /\ Reported = Len(items)
            /\ {"test_with_tmp_path", "test_with_tmpdir", "test_stdout"} \subseteq CalledNames)
    /\ [][(InItem("test_known_failure") /\ step = "call") =>
            /\ stats'["failed"] = stats["failed"]
            /\ stats'["error"] = stats["error"]
            /\ stats'["xfailed"] = stats["xfailed"] + 1]_vars

(* The session ended after test_known_failure's body ran and failed.       *)
C3_Witness ==
    /\ phase = "done"
    /\ "test_known_failure" \in CalledNames
    /\ stats["xfailed"] = 1
    /\ "test_stdout" \in CalledNames

(* C4: the body of the skip-marked test_not_ready is never entered, no     *)
(* fixture and no setup_function / teardown_function is run for it, and    *)
(* it is reported as skipped.                                              *)
C4_SkipNeverExecutes ==
    /\ "test_not_ready" \notin CalledNames
    /\ InItem("test_not_ready") =>
          /\ step \in {"pending", "advance"}
          /\ hooks.funcSetUp = 0
          /\ hooks.setupFunction = hooks.teardownFunction
          /\ db.def = 0
    /\ lastReport.name = "test_not_ready" => lastReport.outcome = "skipped"

(* test_not_ready has been reported.                                       *)
C4_Witness ==
    /\ InItem("test_not_ready")
    /\ step = "advance"
    /\ lastReport.name = "test_not_ready"
    /\ lastReport.outcome = "skipped"

(* C5: your_module.external_dependency is the mock exactly while the       *)
(* with-block of test_with_patch is open: every lookup inside the block    *)
(* sees the mock, and once the block is left, normally or by a failing     *)
(* assertion, the attribute is the original again, so the body of no       *)
(* other test starts with the mock in place.                               *)
C5_PatchScopedToBlock ==
    /\ patchCtx.seen \subseteq {"mock"}
    /\ (Running /\ step = "inpatch") <=> dep = "mock"
    /\ (Running /\ step = "inpatch") => patchCtx.active
    /\ ~(Running /\ step = "inpatch") =>
          dep = (IF env.external_dependency THEN "original" ELSE "absent")
    /\ (BodyReached /\ Cur.def.name # "test_with_patch") => dep # "mock"

(* The block was left through a failing assertion, and a later test runs.  *)
C5_Witness ==
    /\ InItem("test_async_function")
    /\ step = "call"
    /\ patchCtx.pending = "failed"
    /\ patchCtx.seen = {"mock"}
    /\ dep = "original"

(* C6: with the import block as shipped, the import of the module stops    *)
(* at line 12 when your_module cannot be imported and at line 186 (`sys`)  *)
(* when it can, nothing is collected, and no test body, fixture or hook    *)
(* runs.                                                                   *)
C6_AsShippedNothingRuns ==
    ~env.sys =>
        /\ phase \in {"load", "collecterror"}
        /\ phase = "collecterror" => errLine = (IF env.your_module THEN 186 ELSE 12)
        /\ items = <<>>
        /\ calls = <<>>
        /\ hooks.setupModule = 0 /\ hooks.setupFunction = 0
        /\ hooks.teardownModule = 0 /\ hooks.teardownFunction = 0
        /\ db = NoDb
        /\ Reported = 0

(* your_module was supplied and the import stopped at line 186.            *)
C6_Witness ==
    /\ ~env.sys
    /\ env.your_module
    /\ phase = "collecterror"
    /\ errLine = 186
    /\ ns["test_not_ready"] = 180

(* C9: setup_module runs once before any test, teardown_module once after  *)
(* all of them; for every test function setup_function has run when its    *)
(* fixtures and body start, and teardown_function has run for it before    *)
(* the next item starts.                                                   *)
C9_HooksBracketTests ==
    /\ hooks.setupModule <= 1 /\ hooks.teardownModule <= 1
    /\ calls # <<>> => hooks.setupModule = 1
    /\ phase = "run" => hooks.teardownModule = 0
    /\ (Running /\ step \in {"fixtures", "call", "inpatch", "teardown"}) => hooks.moduleSetUp
    /\ phase = "done" =>
          /\ hooks.setupModule = 1 /\ hooks.teardownModule = 1
          /\ ~hooks.moduleSetUp
          /\ hooks.setupFunction = hooks.teardownFunction
    /\ (Running /\ step \in {"fixtures", "call", "inpatch", "teardown", "xunit_teardown"}
          /\ Cur.def.kind = "function") =>
          /\ hooks.funcSetUp = cur
          /\ hooks.setupFunction = hooks.teardownFunction + 1
    /\ (Running /\ step \in {"pending", "advance"}) =>
          /\ hooks.funcSetUp = 0
          /\ hooks.setupFunction = hooks.teardownFunction

(* The session ended with every function's hooks paired.                   *)
C9_Witness ==
    /\ phase = "done"
    /\ hooks.teardownModule = 1
    /\ hooks.teardownFunction >= 20
    /\ "test_stdout" \in CalledNames
==========================================================================
